---- MODULE Spec2Model ----
(***************************************************************************)
(* slack-stream-webhook: the correlation cache (lru.js), the block merge   *)
(* engine and the event handlers (index.js) and the serialized webhook     *)
(* queue (webhooks-queue.js).                                              *)
(***************************************************************************)
EXTENDS Integers, Sequences, FiniteSets, TLC

VARIABLES
  \* ---- lru.js: the state closed over by createTypedLRUCache
  max,        \* options.max
  count,      \* let count
  map,        \* const map: key -> node (NoNode when the key is absent)
  head,       \* let head (NoNode is null)
  tail,       \* let tail (NoNode is null)
  nodes,      \* the heap of Node objects, in allocation order
  \* ---- observation of the cache's callers
  touched,    \* keys in order of their last touch by get or set, latest first
  lastOp,     \* the last cache call and what it saw on entry
  streak,     \* the get(k) last answered and the new keys inserted since
  \* ---- index.js: a block list under upsertJob
  curBlocks,  \* the block list (the attachment's blocks)
  prevBlocks, \* the block list the last call was given
  lastJob,    \* the workflow_job of the last call
  phase,      \* "given", then "once" or "threw", then "twice"
  \* ---- webhooks-queue.js and the handlers of index.js
  queue,      \* the jobs added to the bull queue and not yet taken, oldest first
  active,     \* the handler invocations in flight, each where it is suspended
  settled,    \* the queue jobs whose handler has completed or failed
  failed,     \* those of them whose handler threw
  delivered,  \* the webhook events received so far
  messages,   \* the chat channel: the root messages posted, by timestamp order
  definition, \* per run, what the workflow file at its commit holds
  reported,   \* the URLs of the jobs whose events were merged, in first-seen order
  consulted   \* per run, the calls of getWorkflowRunFromWorkflowJob so far

cacheVars == <<max, count, map, head, tail, nodes>>
lruObs    == <<touched, lastOp, streak>>
mergeVars == <<curBlocks, prevBlocks, lastJob, phase>>
sysVars   == <<queue, active, settled, failed, delivered, messages, definition,
               reported, consulted>>
vars      == <<max, count, map, head, tail, nodes, touched, lastOp, streak,
               curBlocks, prevBlocks, lastJob, phase,
               queue, active, settled, failed, delivered, messages, definition,
               reported, consulted>>

----------------------------------------------------------------------------
(* Bounds *)

MaxCap   == 2      \* capacities 1..MaxCap are tried
MaxNodes == 4      \* nodes ever allocated by insert
NumRuns  == 3      \* distinct run keys
MaxElems == 2      \* job elements of such a block list
MaxQueue == 2      \* jobs waiting in the queue
MaxChunkJobs   == 11  \* jobs of the run with many jobs
MaxChunkEvents == 12  \* events handled for it

(* Program constants *)
DefaultMax  == 1000
Concurrency == 1   \* queue.process(callback): bull's default concurrency

----------------------------------------------------------------------------
(* Values *)

NoNode == 0
Null   == "null"
NoKey  == <<0, 0>>

\* `${runId}:${runAttempt}`: the pair, which the separator keeps injective
RunKey(runId, runAttempt) == <<runId, runAttempt>>

Keys == { RunKey(100 + i, 1) : i \in 0 .. (NumRuns - 1) }

\* values offered to set: well-formed locators and objects the schema rejects
Channels == {"C1"}
Stamps   == {"t1", "t2"}
Offered  == [channel : Channels \cup {Null}, ts : Stamps \cup {Null}]

\* messageInfoSchema = z.object({ channel: z.string(), ts: z.string() })
SchemaAccepts(value) == value.channel # Null /\ value.ts # Null
SchemaParse(value)   == [channel |-> value.channel, ts |-> value.ts]

\* undefined, where a locator is expected: no parsed locator equals it
Undefined == [channel |-> Null, ts |-> Null]

\* a workflow_job payload
NoJob == [html_url |-> Null, name |-> <<>>, status |-> Null, conclusion |-> Null,
          started_at |-> 0, completed_at |-> 0 - 1, run_id |-> 0, run_attempt |-> 0]

\* the parts a specification does not exercise stay as constructed
MergeIdle ==
  curBlocks = <<>> /\ prevBlocks = <<>> /\ lastJob = NoJob /\ phase = "given"

----------------------------------------------------------------------------
(* lru.js, over a cache state c = [count, map, head, tail, nodes] *)

CacheState == [count |-> count, map |-> map, head |-> head, tail |-> tail,
               nodes |-> nodes]

EmptyCache == [count |-> 0, map |-> [k \in Keys |-> NoNode], head |-> NoNode,
               tail |-> NoNode, nodes |-> <<>>]

NoRuns == [r \in {} |-> Null]

SysIdle ==
  /\ queue = <<>> /\ active = <<>> /\ settled = {} /\ failed = {}
  /\ delivered = {}
  /\ messages = <<>> /\ definition = NoRuns /\ reported = <<>>
  /\ consulted = NoRuns

NoStreak == [key |-> NoKey, fresh |-> {}]
NoOp     == [op |-> "none", key |-> NoKey, ok |-> FALSE]

\* a cache as createTypedLRUCache(schema) returns it, nobody calling it
NewCache(m) ==
  /\ max = m
  /\ count = EmptyCache.count /\ map = EmptyCache.map /\ head = EmptyCache.head
  /\ tail = EmptyCache.tail /\ nodes = EmptyCache.nodes
  /\ touched = <<>> /\ streak = NoStreak /\ lastOp = NoOp

\* n.field = v, when n is an object
SetField(ns, n, field, v) ==
  IF n = NoNode THEN ns ELSE [ns EXCEPT ![n] = [@ EXCEPT ![field] = v]]

\* insert without map.set(key, node)
insertForgetsMap(c, key, value) ==
  LET node == Len(c.nodes) + 1
      ns0  == Append(c.nodes, [key |-> key, value |-> value,
                               next |-> NoNode, prev |-> NoNode])
  IN IF c.head = NoNode
     THEN [c EXCEPT !.count = c.count + 1, !.nodes = ns0,
                    !.head = node, !.tail = node]
     ELSE LET ns1 == SetField(ns0, c.head, "prev", node)
              ns2 == SetField(ns1, node, "next", c.head)
          IN [c EXCEPT !.count = c.count + 1, !.nodes = ns2, !.head = node]

insert(c, key, value) ==
  LET node == Len(c.nodes) + 1
      ns0  == Append(c.nodes, [key |-> key, value |-> value,
                               next |-> NoNode, prev |-> NoNode])
      m1   == [c.map EXCEPT ![key] = node]
  IN IF c.head = NoNode
     THEN [c EXCEPT !.count = c.count + 1, !.map = m1, !.nodes = ns0,
                    !.head = node, !.tail = node]
     ELSE LET ns1 == SetField(ns0, c.head, "prev", node)
              ns2 == SetField(ns1, node, "next", c.head)
          IN [c EXCEPT !.count = c.count + 1, !.map = m1, !.nodes = ns2,
                       !.head = node]

use(c, key) ==
  LET node == c.map[key]
  IN IF node = NoNode THEN c
     ELSE IF node = c.head THEN c
     ELSE
       LET unlinked ==
             IF node = c.tail
             THEN [c EXCEPT
                     !.nodes = SetField(c.nodes, c.nodes[node].prev, "next", NoNode),
                     !.tail  = c.nodes[node].prev]
             ELSE LET ns1 == SetField(c.nodes, c.nodes[node].prev, "next",
                                      c.nodes[node].next)
                      ns2 == SetField(ns1, ns1[node].next, "prev", ns1[node].prev)
                  IN [c EXCEPT !.nodes = ns2]
           ns3 == SetField(unlinked.nodes, node, "prev", NoNode)
           ns4 == SetField(ns3, node, "next", unlinked.head)
           ns5 == SetField(ns4, unlinked.head, "prev", node)
       IN [unlinked EXCEPT !.nodes = ns5, !.head = node]

evict(c) ==
  IF c.tail = NoNode THEN c
  ELSE
    LET moved ==
          IF c.head = c.tail
          THEN [c EXCEPT !.head = NoNode, !.tail = NoNode]
          ELSE [c EXCEPT
                  !.nodes = SetField(c.nodes, c.nodes[c.tail].prev, "next", NoNode),
                  !.tail  = c.nodes[c.tail].prev]
        counted == [moved EXCEPT !.count = moved.count - 1]
    IN IF counted.tail # NoNode
       THEN [counted EXCEPT !.map[counted.nodes[counted.tail].key] = NoNode]
       ELSE counted

\* cache.get: the value returned and the cache after it
getValue(c, key) ==
  IF c.map[key] = NoNode THEN Undefined ELSE c.nodes[c.map[key]].value

getCache(c, key) ==
  IF c.map[key] = NoNode THEN c ELSE use(c, c.nodes[c.map[key]].key)

\* cache.set, once schema.parse has returned
set(c, key, value) ==
  LET node == c.map[key]
  IN IF node # NoNode
     THEN LET c1 == [c EXCEPT !.nodes = SetField(c.nodes, node, "value", value)]
              c2 == use(c1, key)
          IN [c2 EXCEPT !.map[key] = node]
     ELSE insert(IF c.count >= max THEN evict(c) ELSE c, key, value)

----------------------------------------------------------------------------
(* The cache driven by arbitrary callers: get and set in any order *)

Retrievable == { k \in Keys : map[k] # NoNode }

Without(seq, k) == SelectSeq(seq, LAMBDA x : x # k)
Touch(seq, k)   == <<k>> \o Without(seq, k)

\* the retrievable key whose last touch by get or set is the oldest
LeastRecent ==
  LET live == SelectSeq(touched, LAMBDA x : x \in Retrievable)
  IN IF live = <<>> THEN NoKey ELSE live[Len(live)]

Install(c) ==
  /\ count' = c.count
  /\ map'   = c.map
  /\ head'  = c.head
  /\ tail'  = c.tail
  /\ nodes' = c.nodes

Get(key) ==
  LET value == getValue(CacheState, key)
  IN /\ Install(getCache(CacheState, key))
     /\ touched' = IF value # Undefined THEN Touch(touched, key) ELSE touched
     /\ lastOp'  = [op |-> "get", key |-> key, ok |-> value # Undefined]
     /\ streak'  = IF value # Undefined THEN [key |-> key, fresh |-> {}] ELSE NoStreak
     /\ UNCHANGED <<max, mergeVars, sysVars>>

Set(key, value) ==
  IF ~SchemaAccepts(value)
  THEN \* schema.parse throws before anything is touched
       /\ lastOp' = [op |-> "set", key |-> key, ok |-> FALSE]
       /\ streak' = NoStreak
       /\ UNCHANGED <<cacheVars, touched, mergeVars, sysVars>>
  ELSE /\ (map[key] = NoNode => Len(nodes) < MaxNodes)
       /\ Install(set(CacheState, key, SchemaParse(value)))
       /\ touched' = Touch(touched, key)
       /\ lastOp'  = [op |-> "set", key |-> key, ok |-> TRUE]
       /\ streak'  = IF /\ streak.key # NoKey
                        /\ key # streak.key
                        /\ key \notin Retrievable
                        /\ key \notin streak.fresh
                     THEN [streak EXCEPT !.fresh = @ \cup {key}]
                     ELSE NoStreak
       /\ UNCHANGED <<max, mergeVars, sysVars>>

InitLRU ==
  /\ MergeIdle
  /\ SysIdle
  /\ \E m \in 1 .. MaxCap : NewCache(m)

NextLRU ==
  \/ \E key \in Keys : Get(key)
  \/ \E key \in Keys, value \in Offered : Set(key, value)

SpecLRU == InitLRU /\ [][NextLRU]_vars

----------------------------------------------------------------------------
(* Shape of the list and the map *)

\* the nodes met walking from head along next (a walk of at most Len(nodes) steps)
RECURSIVE Walk(_, _, _)
Walk(ns, n, fuel) ==
  IF n = NoNode \/ fuel = 0 THEN <<>>
  ELSE <<n>> \o Walk(ns, ns[n].next, fuel - 1)

ListNodes == Walk(nodes, head, Len(nodes) + 1)
ListKeys  == { nodes[ListNodes[i]].key : i \in 1 .. Len(ListNodes) }

\* C1: a set of an absent key at capacity makes exactly the least recently
\* touched key unretrievable and keeps every other key, plus the new one.
C1_EvictsLeastRecent ==
  [][ ( /\ lastOp'.op = "set" /\ lastOp'.ok
        /\ lastOp'.key \notin Retrievable
        /\ Cardinality(Retrievable) = max )
      => Retrievable' = (Retrievable \ {LeastRecent}) \cup {lastOp'.key} ]_vars

\* C2: count, the number of keys of the map and the number of list nodes
\* never exceed max.
C2_NeverMoreThanMax ==
  /\ count <= max
  /\ Cardinality(Retrievable) <= max
  /\ Len(ListNodes) <= max

\* C3: the map and the list hold the same keys, one node per key, map.get(key)
\* is that node, and count is the number of nodes.
C3_MapMatchesList ==
  /\ Retrievable = ListKeys
  /\ \A i, j \in 1 .. Len(ListNodes) :
       nodes[ListNodes[i]].key = nodes[ListNodes[j]].key => i = j
  /\ \A i \in 1 .. Len(ListNodes) : map[nodes[ListNodes[i]].key] = ListNodes[i]
  /\ count = Len(ListNodes)

\* C4: after get(k) answered, k stays retrievable while at most max distinct
\* new keys have been inserted since.
C4_TouchedSurvivesMaxInserts ==
  (streak.key # NoKey /\ Cardinality(streak.fresh) <= max)
    => streak.key \in Retrievable

----------------------------------------------------------------------------
(* index.js: the block merge engine.  A text is the sequence of its lexemes, *)
(* so that includes() and the emoji pattern are searches in it.             *)

ChunkSize == 10
NoTime    == 0 - 1
Thrown    == "throw"

\* str.includes(part): part occurs in str as a contiguous run
Includes(str, part) ==
  \E i \in 0 .. (Len(str) - Len(part)) :
    \A k \in 1 .. Len(part) : str[i + k] = part[k]

\* getJobEmoji falling back to an emoji where it should throw
getJobEmojiDefaults(job) ==
  IF job.status = "queued" THEN "slack-stream-pending"
  ELSE IF job.status = "in_progress" THEN "slack-stream-running"
  ELSE IF job.status = "completed" /\ job.conclusion = "success"
       THEN "slack-stream-success"
  ELSE IF job.status = "completed" /\ job.conclusion = "cancelled"
       THEN "slack-stream-cancelled"
  ELSE "slack-stream-failure"

getJobEmoji(job) ==
  IF job.status = "queued" THEN "slack-stream-pending"
  ELSE IF job.status = "in_progress" THEN "slack-stream-running"
  ELSE IF job.status = "completed" /\ job.conclusion = "success"
       THEN "slack-stream-success"
  ELSE IF job.status = "completed" /\ job.conclusion = "failure"
       THEN "slack-stream-failure"
  ELSE IF job.status = "completed" /\ job.conclusion = "cancelled"
       THEN "slack-stream-cancelled"
  ELSE Thrown

\* String(seconds).padStart(2, '0')
PadStart2(n) == IF n < 10 THEN "0" \o ToString(n) ELSE ToString(n)

getCompletionTime(job) ==
  IF job.completed_at = NoTime THEN Null
  ELSE LET durationMs      == job.completed_at - job.started_at
           durationSeconds == durationMs \div 1000
           minutes         == durationSeconds \div 60
           seconds         == durationSeconds % 60
       IN ToString(minutes) \o ":" \o PadStart2(seconds)

\* `:${emoji}: <${job.html_url}|${job.name}>${suffix}`
getJobText(job) ==
  LET completionTime == getCompletionTime(job)
      suffix == IF completionTime # Null
                THEN <<" (" \o completionTime \o ")">> ELSE <<>>
  IN <<":" \o getJobEmoji(job) \o ":", " ", "<", job.html_url, "|">>
       \o job.name \o <<">">> \o suffix

\* block_id `jobs${i}` and block.block_id?.startsWith('jobs')
JobsBlockId(i)   == <<"jobs", ToString(i)>>
IsJobsBlock(block) == Len(block.block_id) >= 1 /\ block.block_id[1] = "jobs"

getJobBlock(job) ==
  [block_id |-> JobsBlockId(0), type |-> "context",
   elements |-> << [type |-> "mrkdwn", text |-> getJobText(job)] >>]

\* /:slack-stream-(success|failure|cancelled):/
TerminalEmoji ==
  {":slack-stream-success:", ":slack-stream-failure:", ":slack-stream-cancelled:"}
\* the pattern with one alternative missing
MatchesTerminalNoFailure(text) ==
  \E i \in 1 .. Len(text) :
    text[i] \in {":slack-stream-success:", ":slack-stream-cancelled:"}
MatchesTerminal(text) == \E i \in 1 .. Len(text) : text[i] \in TerminalEmoji

\* the loop stopping at i + count <= list.length: the last, partial chunk is lost
chunkEveryFullOnly(list, n) ==
  [c \in 1 .. (Len(list) \div n) |-> SubSeq(list, (c - 1) * n + 1, c * n)]

chunkEvery(list, n) ==
  [c \in 1 .. ((Len(list) + n - 1) \div n) |->
     SubSeq(list, (c - 1) * n + 1,
            IF c * n < Len(list) THEN c * n ELSE Len(list))]

\* partition(list, partitionBy): [left, right]
\* partitionBy is given as the function item |-> partitionBy(item)
partition(list, partitionBy) ==
  << SelectSeq(list, LAMBDA item : partitionBy[item]),
     SelectSeq(list, LAMBDA item : ~partitionBy[item]) >>

\* block => block.block_id?.startsWith('jobs'), on the blocks of a list
JobsBlockTest(blocks) ==
  [block \in { blocks[i] : i \in 1 .. Len(blocks) } |-> IsJobsBlock(block)]

\* jobsBlocks.flatMap(block => block.elements)
RECURSIVE FlatElements(_)
FlatElements(blocks) ==
  IF blocks = <<>> THEN <<>>
  ELSE Head(blocks).elements \o FlatElements(Tail(blocks))

\* the element the job's event names: an mrkdwn element with `<${html_url}|`
NamesJob(element, job) ==
  /\ element.type = "mrkdwn"
  /\ Includes(element.text, <<"<", job.html_url, "|">>)

\* the map callback without the test for a terminal emoji
MergeElementOverwrites(element, job, jobElement) ==
  IF element.type # "mrkdwn" THEN element
  ELSE IF ~Includes(element.text, <<"<", job.html_url, "|">>) THEN element
  ELSE jobElement

\* the map callback of upsertJob
MergeElement(element, job, jobElement) ==
  IF element.type # "mrkdwn" THEN element
  ELSE IF ~Includes(element.text, <<"<", job.html_url, "|">>) THEN element
  ELSE IF MatchesTerminal(element.text) THEN element
  ELSE jobElement

\* `updated` never set
UpdatedNever(flat, job) == FALSE

\* whether the map callback set `updated`
Updated(flat, job) == \E i \in 1 .. Len(flat) : NamesJob(flat[i], job)

\* upsertJob(blocks, job), for a job getJobText accepts
upsertJob(blocks, job) ==
  LET parts       == partition(blocks, JobsBlockTest(blocks))
      jobsBlocks  == parts[1]
      otherBlocks == parts[2]
      jobElement  == [type |-> "mrkdwn", text |-> getJobText(job)]
      flat        == FlatElements(jobsBlocks)
      mapped      == [i \in 1 .. Len(flat) |->
                        MergeElement(flat[i], job, jobElement)]
      elements    == IF Updated(flat, job) THEN mapped
                     ELSE Append(mapped, jobElement)
      chunks      == chunkEvery(elements, ChunkSize)
  IN otherBlocks \o
     [i \in 1 .. Len(chunks) |->
        [block_id |-> JobsBlockId(i - 1), type |-> "context",
         elements |-> chunks[i]]]

----------------------------------------------------------------------------
(* Workflow jobs and block lists offered to the merge engine *)

JobUrl(j)  == "https://github.com/o/r/actions/runs/100/job/" \o ToString(j)
JobName(j) == <<"job" \o ToString(j)>>

WorkflowJob(runId, j, status, conclusion, durationMs) ==
  [html_url |-> JobUrl(j), name |-> JobName(j),
   status |-> status, conclusion |-> conclusion,
   started_at |-> 1000,
   completed_at |-> IF status = "completed" THEN 1000 + durationMs ELSE NoTime,
   run_id |-> runId, run_attempt |-> 1]

Conclusions == {"success", "failure", "cancelled", "skipped"}
Durations   == {5999, 65000}

JobEventsOf(runId, jobIds, durations) ==
  { WorkflowJob(runId, j, "queued", Null, 0) : j \in jobIds }
    \cup { WorkflowJob(runId, j, "in_progress", Null, 0) : j \in jobIds }
    \cup { WorkflowJob(runId, j, "completed", c, d) :
             j \in jobIds, c \in Conclusions, d \in durations }

IsTerminalJob(e) ==
  e.status = "completed" /\ e.conclusion \in {"success", "failure", "cancelled"}

\* the jobs and events offered to upsertJob on arbitrary block lists
MergeJobIds == {1, 2}
MergeEvents ==
  JobEventsOf(100, {1}, Durations) \cup JobEventsOf(100, {2}, {65000})

\* elements a block list may already hold: job elements, and one that is no mrkdwn
ElementUniverse ==
  { [type |-> "mrkdwn", text |-> getJobText(e)] :
      e \in { x \in JobEventsOf(100, MergeJobIds, {65000}) :
                getJobEmoji(x) # Thrown } }
    \cup { [type |-> "plain_text", text |-> <<"note">>] }

InfoBlock == [block_id |-> <<"info">>, type |-> "section", elements |-> <<>>]

ContextBlock(i, es) ==
  [block_id |-> JobsBlockId(i), type |-> "context", elements |-> es]

\* es split at cut into one or two job blocks, an info block first or last
Layout(es, cut, info) ==
  LET jobsBlocks ==
        IF es = <<>> THEN <<>>
        ELSE IF cut = 0 \/ cut >= Len(es) THEN <<ContextBlock(0, es)>>
        ELSE <<ContextBlock(0, SubSeq(es, 1, cut)),
               ContextBlock(1, SubSeq(es, cut + 1, Len(es)))>>
  IN CASE info = "none"   -> jobsBlocks
       [] info = "first"  -> <<InfoBlock>> \o jobsBlocks
       [] info = "last"   -> jobsBlocks \o <<InfoBlock>>

BlockLists ==
  { Layout(es, cut, info) :
      es \in UNION { [1 .. k -> ElementUniverse] : k \in 0 .. MaxElems },
      cut \in 0 .. (MaxElems - 1),
      info \in {"none", "first", "last"} }

JobElements(bs) == FlatElements(partition(bs, JobsBlockTest(bs))[1])

InitMerge ==
  /\ NewCache(DefaultMax)
  /\ SysIdle
  /\ curBlocks \in BlockLists
  /\ prevBlocks = curBlocks
  /\ lastJob = NoJob
  /\ phase = "given"

\* one call upsertJob(blocks, e), its result taken as the next block list
Upsert(e) ==
  /\ phase = "given"
  /\ getJobEmoji(e) # Thrown
  /\ curBlocks' = upsertJob(curBlocks, e)
  /\ prevBlocks' = curBlocks
  /\ lastJob' = e
  /\ phase' = "once"
  /\ UNCHANGED <<cacheVars, lruObs, sysVars>>

\* getJobText throws for a state outside the emoji table: no result
UpsertThrows(e) ==
  /\ phase = "given"
  /\ getJobEmoji(e) = Thrown
  /\ prevBlocks' = curBlocks
  /\ lastJob' = e
  /\ phase' = "threw"
  /\ UNCHANGED <<curBlocks, cacheVars, lruObs, sysVars>>

\* the same call again, on the result of the first
UpsertAgain ==
  /\ phase = "once"
  /\ curBlocks' = upsertJob(curBlocks, lastJob)
  /\ prevBlocks' = curBlocks
  /\ phase' = "twice"
  /\ UNCHANGED <<lastJob, cacheVars, lruObs, sysVars>>

NextMerge ==
  \/ \E e \in MergeEvents : Upsert(e)
  \/ \E e \in MergeEvents : UpsertThrows(e)
  \/ UpsertAgain

SpecMerge == InitMerge /\ [][NextMerge]_vars

\* C5: an element of the job's URL that shows a terminal emoji comes back
\* unchanged at its position, and the call adds no element for the job.
C5_TerminalSticky ==
  LET old == JobElements(prevBlocks)
      new == JobElements(curBlocks)
  IN (phase = "once" /\
        \E i \in 1 .. Len(old) : NamesJob(old[i], lastJob) /\ MatchesTerminal(old[i].text))
     => /\ Len(new) = Len(old)
        /\ \A i \in 1 .. Len(old) :
             (NamesJob(old[i], lastJob) /\ MatchesTerminal(old[i].text))
               => new[i] = old[i]

C5_Witness ==
  /\ phase = "once"
  /\ lastJob.status \in {"queued", "in_progress"}
  /\ \E i \in 1 .. Len(JobElements(prevBlocks)) :
       /\ NamesJob(JobElements(prevBlocks)[i], lastJob)
       /\ MatchesTerminal(JobElements(prevBlocks)[i].text)
       /\ i > 1

\* C8: for a job in a terminal state, the second call returns what the first
\* returned.
C8_TerminalIdempotent ==
  (phase = "twice" /\ IsTerminalJob(lastJob)) => curBlocks = prevBlocks

C8_Witness ==
  /\ phase = "twice" /\ IsTerminalJob(lastJob)
  /\ \E i \in 1 .. Len(JobElements(curBlocks)) :
       JobElements(curBlocks)[i].text = getJobText(lastJob)
  /\ Len(curBlocks) > 1

----------------------------------------------------------------------------
(* webhooks-queue.js and the handlers of index.js.  The bull queue hands   *)
(* the callback of queue.process one job at a time, oldest first; a        *)
(* handler runs until its next await of an external call.                  *)

HandledEvents == {"workflow_job.queued", "workflow_job.in_progress",
                  "workflow_job.completed", "workflow_run.completed"}

WorkflowRun(runId, conclusion) ==
  [id |-> runId, run_attempt |-> 1, name |-> <<"CI">>, conclusion |-> conclusion]

\* the events GitHub sends for run 100: job 1 opens the run, job 2 goes
\* through its states (one event with a conclusion outside getJobEmoji), the
\* run completes
SysEvents ==
  { [eventName |-> "workflow_job.queued",
     payload |-> WorkflowJob(100, 1, "queued", Null, 0)],
    [eventName |-> "workflow_job.queued",
     payload |-> WorkflowJob(100, 2, "queued", Null, 0)],
    [eventName |-> "workflow_job.in_progress",
     payload |-> WorkflowJob(100, 2, "in_progress", Null, 0)],
    [eventName |-> "workflow_job.completed",
     payload |-> WorkflowJob(100, 2, "completed", "failure", 65000)],
    [eventName |-> "workflow_job.completed",
     payload |-> WorkflowJob(100, 2, "completed", "skipped", 5999)],
    [eventName |-> "workflow_run.completed",
     payload |-> WorkflowRun(100, "failure")] }

SysRunKeys == { RunKey(100, 1) }

EventKey(eventName, payload) ==
  IF eventName = "workflow_run.completed"
  THEN RunKey(payload.id, payload.run_attempt)
  ELSE RunKey(payload.run_id, payload.run_attempt)

\* what repos.getContent and yaml.load give for the run's workflow file
Definitions == {"true", "other", "unparsable", "directory"}

\* getRunColor() as the handler of workflow_job.queued calls it
getRunColorNoRun(conclusion) == "#768390"

getRunColor(conclusion) ==
  CASE conclusion = "cancelled" -> "#767172"
    [] conclusion = "success"   -> "#57AB5A"
    [] conclusion = "failure"   -> "#E5534B"
    [] OTHER                    -> "#768390"

JobColor == "#DBAB0A"

getInfoBlock(run) == [block_id |-> <<"info">>, type |-> "section", elements |-> <<>>]

Stamp(i) == "ts" \o ToString(i)

\* getMessageFromMessageInfo: the place of the message with that ts, 0 if none
MessageAt(ts) ==
  IF \E i \in 1 .. Len(messages) : messages[i].ts = ts
  THEN CHOOSE i \in 1 .. Len(messages) : messages[i].ts = ts
  ELSE 0

\* the root message the workflow_job.queued handler posts
RootMessage(ts, job) ==
  [ts |-> ts, channel |-> "C1", color |-> getRunColor(Null),
   blocks |-> <<getInfoBlock(job.run_id), getJobBlock(job)>>,
   replies |-> <<>>]

\* the attachment updateMessageFromWorkflowJob sends, for a job getJobText accepts
JobAttachment(message, job) ==
  [color |-> JobColor, blocks |-> upsertJob(message.blocks, job)]

\* the attachment the workflow_run.completed handler sends
RunAttachment(message, run) ==
  [color |-> getRunColor(run.conclusion), blocks |-> message.blocks]

\* `${job.name} ${job.status}`
ReplyTextStatus(payload) == payload.name \o <<" ", "completed">>

\* `${job.name} ${job.conclusion}`, `${run.name} ${run.conclusion}`
ReplyText(payload) == payload.name \o <<" ", payload.conclusion>>

\* first-seen order of the jobs a message shows
Report(seq, url) == IF \E i \in 1 .. Len(seq) : seq[i] = url THEN seq ELSE Append(seq, url)

\* queue.add(data, { lifo: true })
AddedLifo(q, qjob) == <<qjob>> \o q

\* queue.add(data): bull appends the job
Added(q, qjob) == Append(q, qjob)

\* queue.process(2, callback)
WorkerFreeForTwo == Len(active) < Concurrency + 1

\* bull starts the callback when fewer than its concurrency are running
WorkerFree == Len(active) < Concurrency

\* the locator taken as missing whatever getMessageInfo returned
NoMessageInfoEver(messageInfo) == TRUE

\* if (!messageInfo): getMessageInfo returned null
NoMessageInfo(messageInfo) == messageInfo = Undefined

\* parsedContents.env?.SLACK_STREAM taken as any value
getWorkflowRunAnyFlag(def) ==
  CASE def = "directory"  -> Null
    [] def = "unparsable" -> Thrown
    [] OTHER              -> "run"

\* getWorkflowRunFromWorkflowJob once getContent has answered with the file:
\* the run, null, or the throw of yaml.load or workflowYamlSchema.parse
getWorkflowRunFromWorkflowJob(def) ==
  CASE def = "directory"  -> Null
    [] def = "unparsable" -> Thrown
    [] def = "true"       -> "run"
    [] OTHER              -> Null

Frame(qjob, pc, messageInfo) ==
  [seq |-> qjob.seq, eventName |-> qjob.eventName, payload |-> qjob.payload,
   pc |-> pc, messageInfo |-> messageInfo,
   attachment |-> [color |-> Null, blocks |-> <<>>]]

RemoveAt(seq, i) == SubSeq(seq, 1, i - 1) \o SubSeq(seq, i + 1, Len(seq))

\* the callback of queue.process returns (ok) or rejects: bull settles the job
Settle(i, ok) ==
  /\ active' = RemoveAt(active, i)
  /\ settled' = settled \cup {active[i].seq}
  /\ failed' = IF ok THEN failed ELSE failed \cup {active[i].seq}

Suspend(i, pc) == active' = [active EXCEPT ![i].pc = pc]

\* webhooks.on(eventName, ...): the event is added to the queue
Deliver(e) ==
  /\ e \notin delivered
  /\ Len(queue) < MaxQueue
  /\ delivered' = delivered \cup {e}
  /\ queue' = Added(queue, [seq |-> Cardinality(delivered) + 1,
                            eventName |-> e.eventName, payload |-> e.payload])
  /\ UNCHANGED <<active, settled, failed, messages, definition, reported,
                 consulted, cacheVars, lruObs, mergeVars>>

\* the callback of queue.process, up to the handler's first external call:
\* getMessageInfo, then the fetch of the run or the read of the message
Start ==
  /\ WorkerFree
  /\ queue # <<>>
  /\ LET qjob == Head(queue)
         key  == EventKey(qjob.eventName, qjob.payload)
         messageInfo == getValue(CacheState, key)
     IN /\ queue' = Tail(queue)
        /\ IF qjob.eventName \notin HandledEvents
           THEN /\ settled' = settled \cup {qjob.seq}
                /\ UNCHANGED <<active, cacheVars>>
                /\ UNCHANGED consulted
           ELSE /\ Install(getCache(CacheState, key))
                /\ UNCHANGED max
                /\ IF qjob.eventName = "workflow_job.queued" /\ NoMessageInfo(messageInfo)
                   THEN /\ active' = Append(active,
                                       Frame(qjob, "getWorkflowRunAttempt", messageInfo))
                        /\ consulted' = [consulted EXCEPT ![key] = @ + 1]
                        /\ UNCHANGED settled
                   ELSE IF NoMessageInfo(messageInfo)
                   THEN /\ settled' = settled \cup {qjob.seq}
                        /\ UNCHANGED <<active, consulted>>
                   ELSE /\ active' = Append(active, Frame(qjob, "history", messageInfo))
                        /\ UNCHANGED <<settled, consulted>>
  /\ UNCHANGED <<failed, delivered, messages, definition, reported, lruObs, mergeVars>>

\* octokit.actions.getWorkflowRunAttempt answers
RunFetched(i) ==
  /\ active[i].pc = "getWorkflowRunAttempt"
  /\ Suspend(i, "getContent")
  /\ UNCHANGED <<queue, settled, failed, delivered, messages, definition, reported,
                 consulted, cacheVars, lruObs, mergeVars>>

\* octokit.repos.getContent answers: the rest of getWorkflowRunFromWorkflowJob
ContentFetched(i) ==
  /\ active[i].pc = "getContent"
  /\ LET def == definition[EventKey(active[i].eventName, active[i].payload)]
         run == getWorkflowRunFromWorkflowJob(def)
     IN CASE run = "run"  -> Suspend(i, "postMessage") /\ UNCHANGED <<settled, failed>>
          [] run = Thrown -> Settle(i, FALSE)
          [] OTHER        -> Settle(i, TRUE)
  /\ UNCHANGED <<queue, delivered, messages, definition, reported, consulted,
                 cacheVars, lruObs, mergeVars>>

\* slack.chat.postMessage of the root message answers; setMessageInfo
Posted(i) ==
  /\ active[i].pc = "postMessage"
  /\ LET ts  == Stamp(Len(messages) + 1)
         job == active[i].payload
         key == EventKey(active[i].eventName, job)
     IN /\ messages' = Append(messages, RootMessage(ts, job))
        /\ reported' = Report(reported, job.html_url)
        /\ Install(set(CacheState, key, SchemaParse([channel |-> "C1", ts |-> ts])))
  /\ Settle(i, TRUE)
  /\ UNCHANGED <<max, queue, delivered, definition, consulted, lruObs, mergeVars>>

\* slack.conversations.history answers; the content of chat.update is built
HistoryRead(i) ==
  /\ active[i].pc = "history"
  /\ LET at == MessageAt(active[i].messageInfo.ts)
         f  == active[i]
     IN IF at = 0 THEN Settle(i, TRUE)
        ELSE IF f.eventName = "workflow_run.completed"
        THEN /\ active' = [active EXCEPT
                             ![i].pc = "update",
                             ![i].attachment = RunAttachment(messages[at], f.payload)]
             /\ UNCHANGED <<settled, failed>>
        ELSE IF getJobEmoji(f.payload) = Thrown THEN Settle(i, FALSE)
        ELSE /\ active' = [active EXCEPT
                             ![i].pc = "update",
                             ![i].attachment = JobAttachment(messages[at], f.payload)]
             /\ UNCHANGED <<settled, failed>>
  /\ UNCHANGED <<queue, delivered, messages, definition, reported, consulted,
                 cacheVars, lruObs, mergeVars>>

\* slack.chat.update answers
MessageUpdated(i) ==
  /\ active[i].pc = "update"
  /\ LET at == MessageAt(active[i].messageInfo.ts)
     IN messages' = [messages EXCEPT ![at].color = active[i].attachment.color,
                                     ![at].blocks = active[i].attachment.blocks]
  /\ reported' = IF active[i].eventName = "workflow_run.completed" THEN reported
                  ELSE Report(reported, active[i].payload.html_url)
  /\ IF active[i].eventName \in {"workflow_job.completed", "workflow_run.completed"}
     THEN Suspend(i, "reply") /\ UNCHANGED <<settled, failed>>
     ELSE Settle(i, TRUE)
  /\ UNCHANGED <<queue, delivered, definition, consulted, cacheVars, lruObs, mergeVars>>

\* slack.chat.postMessage of the threaded reply answers
Replied(i) ==
  /\ active[i].pc = "reply"
  /\ LET at == MessageAt(active[i].messageInfo.ts)
     IN messages' = [messages EXCEPT
                       ![at].replies = Append(@, ReplyText(active[i].payload))]
  /\ Settle(i, TRUE)
  /\ UNCHANGED <<queue, delivered, definition, reported, consulted,
                 cacheVars, lruObs, mergeVars>>

\* the external call a handler awaits rejects: the handler throws
Rejected(i) ==
  /\ Settle(i, FALSE)
  /\ UNCHANGED <<queue, delivered, messages, definition, reported, consulted,
                 cacheVars, lruObs, mergeVars>>

Init ==
  /\ NewCache(DefaultMax)
  /\ MergeIdle
  /\ queue = <<>> /\ active = <<>> /\ settled = {} /\ failed = {}
  /\ delivered = {}
  /\ messages = <<>>
  /\ reported = <<>>
  /\ consulted = [k \in SysRunKeys |-> 0]
  /\ definition \in [SysRunKeys -> Definitions]

Next ==
  \/ \E e \in SysEvents : Deliver(e)
  \/ Start
  \/ \E i \in 1 .. Len(active) : RunFetched(i)
  \/ \E i \in 1 .. Len(active) : ContentFetched(i)
  \/ \E i \in 1 .. Len(active) : Posted(i)
  \/ \E i \in 1 .. Len(active) : HistoryRead(i)
  \/ \E i \in 1 .. Len(active) : MessageUpdated(i)
  \/ \E i \in 1 .. Len(active) : Replied(i)
  \/ \E i \in 1 .. Len(active) : Rejected(i)

Spec == Init /\ [][Next]_vars

----------------------------------------------------------------------------
(* One admitted run with many jobs: each handler taken as a whole, which   *)
(* is how the queue runs them.  Jobs are numbered in the order in which    *)
(* their first event is handled.                                           *)

ChunkEvents(seen) ==
  { [eventName |-> "workflow_job.queued",
     payload |-> WorkflowJob(100, j, "queued", Null, 0)] : j \in 1 .. seen }
    \cup { [eventName |-> "workflow_job.in_progress",
            payload |-> WorkflowJob(100, j, "in_progress", Null, 0)] : j \in 1 .. seen }
    \cup { [eventName |-> "workflow_job.completed",
            payload |-> WorkflowJob(100, 1, "completed", "success", 65000)] }

\* the handler of e.eventName on e.payload, from getMessageInfo to its return
Handle(e) ==
  LET key         == EventKey(e.eventName, e.payload)
      messageInfo == getValue(CacheState, key)
      touchedC    == getCache(CacheState, key)
      at          == MessageAt(messageInfo.ts)
      ts          == Stamp(Len(messages) + 1)
  IN /\ Cardinality(settled) < MaxChunkEvents
     /\ settled' = settled \cup {Cardinality(settled) + 1}
     /\ consulted' = IF e.eventName = "workflow_job.queued" /\ NoMessageInfo(messageInfo)
                     THEN [consulted EXCEPT ![key] = @ + 1] ELSE consulted
     /\ IF NoMessageInfo(messageInfo)
        THEN IF /\ e.eventName = "workflow_job.queued"
                /\ getWorkflowRunFromWorkflowJob(definition[key]) = "run"
             THEN /\ messages' = Append(messages, RootMessage(ts, e.payload))
                  /\ reported' = Report(reported, e.payload.html_url)
                  /\ Install(set(touchedC, key,
                                 SchemaParse([channel |-> "C1", ts |-> ts])))
             ELSE /\ Install(touchedC)
                  /\ UNCHANGED <<messages, reported>>
        ELSE /\ Install(touchedC)
             /\ IF at = 0 THEN UNCHANGED <<messages, reported>>
                ELSE /\ messages' =
                          [messages EXCEPT
                             ![at].color = JobAttachment(messages[at], e.payload).color,
                             ![at].blocks = JobAttachment(messages[at], e.payload).blocks,
                             ![at].replies =
                               IF e.eventName = "workflow_job.completed"
                               THEN Append(@, ReplyText(e.payload)) ELSE @]
                     /\ reported' = Report(reported, e.payload.html_url)
     /\ UNCHANGED <<max, queue, active, failed, delivered, definition, lruObs, mergeVars>>

InitChunk ==
  /\ NewCache(DefaultMax)
  /\ MergeIdle
  /\ queue = <<>> /\ active = <<>> /\ settled = {} /\ failed = {}
  /\ delivered = {}
  /\ messages = <<>>
  /\ reported = <<>>
  /\ consulted = [k \in SysRunKeys |-> 0]
  /\ definition = [k \in SysRunKeys |-> "true"]

NextChunk ==
  \E e \in ChunkEvents(IF Len(reported) < MaxChunkJobs
                       THEN Len(reported) + 1 ELSE MaxChunkJobs) : Handle(e)

SpecChunk == InitChunk /\ [][NextChunk]_vars

JobsBlocksOf(m) == partition(m.blocks, JobsBlockTest(m.blocks))[1]

\* C7: n jobs reported give ceil(n / 10) job blocks jobs0, jobs1, ... after the
\* other blocks, each of at most 10 elements, holding the n jobs' elements in
\* first-seen order.
C7_Chunking ==
  \A m \in 1 .. Len(messages) :
    LET n  == Len(reported)
        jb == JobsBlocksOf(messages[m])
        es == FlatElements(jb)
    IN /\ Len(jb) = (n + ChunkSize - 1) \div ChunkSize
       /\ messages[m].blocks = <<getInfoBlock(100)>> \o jb
       /\ \A i \in 1 .. Len(jb) :
            /\ jb[i].block_id = JobsBlockId(i - 1)
            /\ Len(jb[i].elements) <= ChunkSize
            /\ Len(jb[i].elements) >= 1
       /\ Len(es) = n
       /\ \A i \in 1 .. n : Includes(es[i].text, <<"<", reported[i], "|">>)

C7_Witness ==
  /\ Len(messages) = 1
  /\ Len(reported) = ChunkSize + 1
  /\ Len(JobsBlocksOf(messages[1])) = 2
  /\ Len(JobsBlocksOf(messages[1])[1].elements) = ChunkSize
  /\ Len(JobsBlocksOf(messages[1])[2].elements) = 1
  /\ messages[1].replies # <<>>

----------------------------------------------------------------------------
(* What the status message shows for a job, and the order of the handlers *)

\* 0 no element, 1 pending, 2 running, 3 success, failure or cancelled
RankOf(text) ==
  IF text[1] \in TerminalEmoji THEN 3
  ELSE IF text[1] = ":slack-stream-running:" THEN 2
  ELSE IF text[1] = ":slack-stream-pending:" THEN 1
  ELSE 0

\* the elements of a block list that carry the job's URL
ElementsFor(bs, url) ==
  SelectSeq(JobElements(bs),
            LAMBDA el : el.type = "mrkdwn" /\ Includes(el.text, <<"<", url, "|">>))

Shown(bs, url) ==
  IF ElementsFor(bs, url) = <<>> THEN 0 ELSE RankOf(ElementsFor(bs, url)[1].text)

SysJobUrls == { e.payload.html_url :
                  e \in { x \in SysEvents : x.eventName # "workflow_run.completed" } }

\* the handler whose chat.update is landing writes the queued event of url
WritesQueued(url) ==
  \E i \in 1 .. Len(active) :
    /\ active[i].pc = "update"
    /\ active[i].eventName = "workflow_job.queued"
    /\ active[i].payload.html_url = url

\* C6 as stated: whatever the order of a job's events, the rank shown for
\* the job never goes down.
C6_NeverRegresses ==
  [][ \A m \in 1 .. Len(messages) : \A url \in SysJobUrls :
        Shown(messages'[m].blocks, url) >= Shown(messages[m].blocks, url) ]_vars

\* C6 amended: an element showing a terminal state is never changed, and the
\* rank shown goes down only from running to pending, when the job's queued
\* event is handled after its in_progress event.
C6_OnlyTerminalSticks ==
  [][ \A m \in 1 .. Len(messages) : \A url \in SysJobUrls :
        /\ Shown(messages[m].blocks, url) = 3
             => ElementsFor(messages'[m].blocks, url) = ElementsFor(messages[m].blocks, url)
        /\ Shown(messages'[m].blocks, url) < Shown(messages[m].blocks, url)
             => /\ Shown(messages[m].blocks, url) = 2
                /\ Shown(messages'[m].blocks, url) = 1
                /\ WritesQueued(url) ]_vars

\* a non-terminal event of a job is being written over its terminal element,
\* which the content built for chat.update keeps
C6_Witness ==
  \E i \in 1 .. Len(active) :
    /\ active[i].pc = "update"
    /\ active[i].eventName \in {"workflow_job.queued", "workflow_job.in_progress"}
    /\ Len(messages) = 1
    /\ Shown(messages[1].blocks, active[i].payload.html_url) = 3
    /\ Shown(active[i].attachment.blocks, active[i].payload.html_url) = 3

Awaiting == {"getWorkflowRunAttempt", "getContent", "postMessage", "history",
             "update", "reply"}

\* C9: at most one handler is in flight, however many events are waiting.
C9_OneHandlerInFlight == Len(active) <= 1

C9_Witness ==
  /\ Len(active) = 1
  /\ active[1].pc \in Awaiting
  /\ Len(queue) >= 2

\* the queue jobs whose handler has started
Started == settled \cup { active[i].seq : i \in 1 .. Len(active) }

\* C10: when the handler of an event starts, the handler of every event added
\* before it has completed or failed.
C10_EnqueueOrder ==
  [][ \A s \in Started' \ Started : \A r \in 1 .. (s - 1) : r \in settled ]_vars

C10_Witness ==
  /\ Len(active) = 1
  /\ active[1].seq >= 3
  /\ failed # {}
  /\ settled \ failed # {}

----------------------------------------------------------------------------
(* Failures of a handler, and what a run's events leave behind *)

\* C11: no error raised by a handler leaves the callback of queue.process: no
\* queue job is settled as failed.
C11_ErrorsCaught == failed = {}

RunLocator(k) == getValue(CacheState, k)

C14_IneligibleStaysUnseen ==
  \A k \in SysRunKeys :
    definition[k] # "true" =>
      /\ RunLocator(k) = Undefined
      /\ count = 0
      /\ messages = <<>>
      /\ \A i \in 1 .. Len(active) : active[i].pc \notin {"postMessage", "update", "reply"}

\* every event of such a run has been handled
C14_Witness ==
  /\ definition[RunKey(100, 1)] = "other"
  /\ delivered = SysEvents
  /\ Cardinality(settled) = Cardinality(SysEvents)
  /\ failed = {}

\* C15: a handler of workflow_job.queued that ends while the run or the
\* workflow file is being fetched or parsed ends without raising, with no
\* message posted and the cache as it was.
C15_FetchFailureIsNotEligible ==
  [][ \A i \in 1 .. Len(active) :
        ( /\ active[i].pc \in {"getWorkflowRunAttempt", "getContent"}
          /\ active[i].seq \in settled' )
        => /\ active[i].seq \notin failed'
           /\ messages' = messages
           /\ CacheState' = CacheState ]_vars

\* the (status, conclusion) pairs of the emoji table
InEmojiTable(job) ==
  \/ job.status \in {"queued", "in_progress"}
  \/ job.status = "completed" /\ job.conclusion \in {"success", "failure", "cancelled"}

JobFrame(f) == f.eventName # "workflow_run.completed"

\* C16: while the handler of a job event outside the emoji table is in flight
\* nothing is posted, updated or replied and no cache entry changes; the
\* handler ends by throwing, and the worker is then free for the next event.
C16_InvalidJobStateAbortsOneHandler ==
  [][ \A i \in 1 .. Len(active) :
        (JobFrame(active[i]) /\ ~InEmojiTable(active[i].payload))
        => /\ messages' = messages
           /\ \A k \in SysRunKeys : RunLocator(k)' = RunLocator(k)
           /\ count' = count
           /\ active[i].seq \in settled' =>
                /\ active[i].seq \in failed'
                /\ queue' = queue
                /\ Len(active') < Concurrency ]_vars

\* the handler of such an event has thrown and the handler of an event added
\* after it is writing the message
C16_Witness ==
  /\ Cardinality(failed) = 1
  /\ \E i \in 1 .. Len(active) :
       /\ active[i].pc = "update"
       /\ \A s \in failed : active[i].seq > s
  /\ definition[RunKey(100, 1)] = "true"
  /\ \E e \in delivered :
       e.eventName = "workflow_job.completed" /\ ~InEmojiTable(e.payload)
  /\ Cardinality(delivered) = 3

\* C17: the handler of workflow_job.completed with a conclusion of the table,
\* for a job whose element shows running: chat.update puts the conclusion's
\* emoji in that element's place and leaves every other element and block as
\* it was; the reply posted next is the one text "<name> <conclusion>".
C17_CompletedReplacesAndReplies ==
  [][ \A i \in 1 .. Len(active) :
        LET f   == active[i]
            at  == MessageAt(f.messageInfo.ts)
            url == f.payload.html_url
            old == JobElements(messages[at].blocks)
            new == JobElements(messages'[at].blocks)
        IN ( /\ f.eventName = "workflow_job.completed"
             /\ InEmojiTable(f.payload)
             /\ f.pc \in {"update", "reply"}
             /\ messages' # messages )
           => /\ (f.pc = "update" /\ Shown(messages[at].blocks, url) = 2) =>
                   /\ Len(new) = Len(old)
                   /\ \A j \in 1 .. Len(old) :
                        IF Includes(old[j].text, <<"<", url, "|">>)
                        THEN /\ new[j].text[1] =
                                  ":slack-stream-" \o f.payload.conclusion \o ":"
                             /\ Includes(new[j].text, <<"<", url, "|">>)
                        ELSE new[j] = old[j]
                   /\ messages'[at].blocks[1] = messages[at].blocks[1]
                   /\ messages'[at].replies = messages[at].replies
              /\ f.pc = "reply" =>
                   /\ messages'[at].replies =
                        Append(messages[at].replies,
                               f.payload.name \o <<" ", f.payload.conclusion>>)
                   /\ messages'[at].blocks = messages[at].blocks
                   /\ f.seq \in settled' ]_vars

\* job 2, shown as running next to job 1, has been completed and replied to
C17_Witness ==
  /\ Len(messages) = 1
  /\ Len(messages[1].replies) = 1
  /\ messages[1].replies[1] = <<"job2", " ", "failure">>
  /\ Shown(messages[1].blocks, JobUrl(2)) = 3
  /\ Shown(messages[1].blocks, JobUrl(1)) = 1
  /\ \E e \in delivered : e.eventName = "workflow_job.in_progress"
  /\ active = <<>>

\* C18: every job whose element was written to the root message has exactly
\* one element there: no write of a handler drops what another handler wrote.
C18_NoLostUpdate ==
  \A m \in 1 .. Len(messages) :
    \A i \in 1 .. Len(reported) :
      Len(ElementsFor(messages[m].blocks, reported[i])) = 1

\* the events of both jobs have been handled, whichever came first
C18_Witness ==
  /\ delivered = SysEvents
  /\ queue = <<>> /\ active = <<>>
  /\ Len(reported) = 2
  /\ reported[1] = JobUrl(2)
  /\ Len(messages) = 1

Closed(m) ==
  \E r \in 1 .. Len(m.replies) : m.replies[r] = <<"CI", " ", "failure">>

\* C20 as stated: once workflow_run.completed has been handled the root message
\* never carries the in-progress colour again.
C20_ClosedIsFinal ==
  \A m \in 1 .. Len(messages) : Closed(messages[m]) => messages[m].color # "#DBAB0A"

\* C20 amended: the handler of workflow_run.completed sets the colour of the
\* run's conclusion, keeps the blocks and posts one summary reply; the handler
\* of any job event, before or after it, sets the in-progress colour.
C20_RunCompletedRecolours ==
  [][ \A i \in 1 .. Len(active) :
        LET f  == active[i]
            at == MessageAt(f.messageInfo.ts)
        IN (f.pc \in {"update", "reply"} /\ messages' # messages)
           => IF f.eventName = "workflow_run.completed"
              THEN IF f.pc = "update"
                   THEN /\ messages'[at].color = "#E5534B"
                        /\ messages'[at].blocks = messages[at].blocks
                        /\ messages'[at].replies = messages[at].replies
                   ELSE /\ messages'[at].replies =
                             Append(messages[at].replies, <<"CI", " ", "failure">>)
                        /\ messages'[at].color = messages[at].color
                        /\ messages'[at].blocks = messages[at].blocks
              ELSE f.pc = "update" => messages'[at].color = "#DBAB0A" ]_vars

\* a job event handled after workflow_run.completed has put the in-progress
\* colour back
C20_Witness ==
  \E m \in 1 .. Len(messages) :
    /\ Closed(messages[m])
    /\ messages[m].color = "#DBAB0A"

----------------------------------------------------------------------------
(* The cache of index.js at its capacity: run 100 was admitted by the       *)
(* workflow_job.queued event of its job 1, and the other entries belong to  *)
(* runs admitted around it whose events are over.  Run 100's entry is the   *)
(* oldest or the second oldest.                                             *)

EvictRun == RunKey(100, 1)

NewRun == RunKey(101, 1)

EvictRunKeys == {EvictRun, NewRun}

FillerKey(i) == RunKey(1000 + i, 1)

FillerKeys == { FillerKey(i) : i \in 1 .. DefaultMax }

\* the cache after DefaultMax calls of set with distinct keys, the a-th of
\* them for run 100
FullCache(a) ==
  [count |-> DefaultMax,
   head  |-> DefaultMax,
   tail  |-> 1,
   nodes |-> [i \in 1 .. DefaultMax |->
                [key   |-> IF i = a THEN EvictRun ELSE FillerKey(i),
                 value |-> IF i = a THEN [channel |-> "C1", ts |-> Stamp(1)]
                                    ELSE [channel |-> "C1", ts |-> "ts0"],
                 next  |-> i - 1,
                 prev  |-> IF i = DefaultMax THEN NoNode ELSE i + 1]],
   map   |-> [k \in Keys \cup FillerKeys |->
                IF k = EvictRun THEN a
                ELSE IF k \in FillerKeys /\ k # FillerKey(a) THEN k[1] - 1000
                ELSE NoNode]]

EvictEvents ==
  { [eventName |-> "workflow_job.queued",
     payload |-> WorkflowJob(101, 1, "queued", Null, 0)],
    [eventName |-> "workflow_job.queued",
     payload |-> WorkflowJob(100, 2, "queued", Null, 0)],
    [eventName |-> "workflow_job.in_progress",
     payload |-> WorkflowJob(100, 2, "in_progress", Null, 0)],
    [eventName |-> "workflow_job.completed",
     payload |-> WorkflowJob(100, 2, "completed", "failure", 65000)],
    [eventName |-> "workflow_run.completed",
     payload |-> WorkflowRun(100, "failure")] }

InitEvict ==
  /\ max = DefaultMax
  /\ \E a \in 1 .. 2 :
       /\ count = FullCache(a).count /\ map = FullCache(a).map
       /\ head = FullCache(a).head /\ tail = FullCache(a).tail
       /\ nodes = FullCache(a).nodes
  /\ touched = <<>> /\ streak = NoStreak /\ lastOp = NoOp
  /\ MergeIdle
  /\ queue = <<>> /\ active = <<>> /\ settled = {} /\ failed = {}
  /\ delivered = {}
  /\ messages = <<RootMessage(Stamp(1), WorkflowJob(100, 1, "queued", Null, 0))>>
  /\ reported = <<JobUrl(1)>>
  /\ consulted = [k \in EvictRunKeys |-> IF k = EvictRun THEN 1 ELSE 0]
  /\ definition = [k \in EvictRunKeys |-> "true"]

NextEvict ==
  \/ \E e \in EvictEvents : Deliver(e)
  \/ Start
  \/ \E i \in 1 .. Len(active) : RunFetched(i)
  \/ \E i \in 1 .. Len(active) : ContentFetched(i)
  \/ \E i \in 1 .. Len(active) : Posted(i)
  \/ \E i \in 1 .. Len(active) : HistoryRead(i)
  \/ \E i \in 1 .. Len(active) : MessageUpdated(i)
  \/ \E i \in 1 .. Len(active) : Replied(i)
  \/ \E i \in 1 .. Len(active) : Rejected(i)

SpecEvict == InitEvict /\ [][NextEvict]_vars

\* an event of run 100 in the hands of the callback of queue.process
ForEvictRun(x) == EventKey(x.eventName, x.payload) = EvictRun

====
